---- MODULE Spec2Model ----
(***************************************************************************)
(* WebPageGenie: the LangGraph pipeline of app/rag.py (check_page_status,  *)
(* scrape_reference, retrieve, handle_images, generate, move_images,       *)
(* enhanced_validate and the _needs_fix retry edge), the /api/chat and     *)
(* /api/chat/stream handlers of app/main.py that run it and persist its    *)
(* answer, and the chunk store written by upsert_chunks of app/vectors.py. *)
(***************************************************************************)
EXTENDS Integers, Sequences, FiniteSets, TLC

\* ------------------------------------------------------------------------
\* Program constants and model bounds
\* ------------------------------------------------------------------------
MAX_ATTEMPTS == 3

MaxRequests == 1

MaxGenerateCalls == 5

None == "None"

Slugs == {"home"}

Endpoints == {"chat", "chat_stream"}

\* What the request's message contains, as far as the code looks at it:
\*   plain           no occurrence of "image"
\*   mentions_image  contains "image" but none of the generation keywords
\*   generate_image  contains "generate image" / "create image"
\*   image_tool      starts with "image:" (the image tool shortcut of _generate)
QuestionKinds == {"plain", "mentions_image", "generate_image", "image_tool"}

\* ------------------------------------------------------------------------
\* Answers of the model and the static checks of _enhanced_validate
\* ------------------------------------------------------------------------
\* A text, in memory or in a file, is described by the features the code inspects:
\*   id    which text it is
\*   eol   its line ends: "lf", "crlf", or "not_utf8" for a file whose bytes are
\*         not UTF-8 at all
\*   reload whether it ends with the reload snippet
\* and by its kind:
\*   text           prose, no tag at all
\*   fragment       markup without '<html' that references an external script
\*   html_flat      '<html>..</html>' without nested elements
\*   html_wrapped   prose around a flat '<html>..</html>' document
\*   html_external  a document with nested elements, a link to another .html file,
\*                  a <link rel=stylesheet href> and a <script src>
AnswerKinds == {"text", "fragment", "html_flat", "html_wrapped", "html_external"}

NoAnswer == [id |-> <<0, 0>>, kind |-> "none", reload |-> FALSE, eol |-> "lf"]

AbsentPage == [id |-> <<0, 0>>, kind |-> "absent", reload |-> FALSE, eol |-> "lf"]

OrigPage == [id |-> <<0, 0>>, kind |-> "html_flat", reload |-> FALSE, eol |-> "lf"]

\* '"<html" in (answer or "")'
HasHtml(a) == a.kind \in {"html_flat", "html_wrapped", "html_external"}

\* re.findall over multi_page_patterns
multi_page_issues(a) ==
    IF a.kind = "html_external" THEN <<"href=other.html">> ELSE <<>>

\* the open-tag heuristic: every element whose text is not directly followed by
\* its own closing tag is reported, so any nesting is reported
syntax_issues(a) ==
    IF a.kind \in {"fragment", "html_external"}
    THEN <<"Potentially unclosed tags">> ELSE <<>>

external_issues(a) ==
    CASE a.kind = "html_external" -> <<"External CSS found", "External scripts found">>
      [] a.kind = "fragment" -> <<"External scripts found">>
      [] OTHER -> <<>>

\* Python dict helpers: d.update(e), (d.get(k) or [])
DictUpdate(d, e) ==
    [k \in (DOMAIN d) \cup (DOMAIN e) |-> IF k \in DOMAIN e THEN e[k] ELSE d[k]]

GetList(d, k) == IF k \in DOMAIN d THEN d[k] ELSE <<>>

Take(l, n) == SubSeq(l, 1, IF Len(l) < n THEN Len(l) ELSE n)

EmptyDict == [k \in {} |-> <<>>]

static_validation_result(a) ==
    [single_page_issues |-> multi_page_issues(a),
     syntax_issues |-> syntax_issues(a),
     external_resource_issues |-> external_issues(a),
     ok |-> (Len(multi_page_issues(a)) = 0 /\ Len(syntax_issues(a)) = 0
             /\ Len(external_issues(a)) = 0)]

\* ------------------------------------------------------------------------
\* validate_page_with_playwright: the outcomes of one browser validation
\* ------------------------------------------------------------------------
\* the dom of a validation that loaded nothing
NoDom == [id |-> <<0, 0>>, kind |-> "empty", reload |-> FALSE, eol |-> "lf"]

BrowserOutcomes == {"unavailable", "goto_failed", "clean", "console_error"}

validate_page_with_playwright_import_error_reported(outcome, loaded) ==
    IF outcome = "unavailable"
    THEN [dom |-> NoDom, console_errors |-> <<>>,
          page_errors |-> <<"No module named playwright">>, ok |-> FALSE,
          reason |-> "playwright_not_available"]
    ELSE [dom |-> loaded, console_errors |-> <<>>, page_errors |-> <<>>, ok |-> TRUE]

validate_page_with_playwright(outcome, loaded) ==
    CASE outcome = "unavailable" ->
           [dom |-> NoDom, console_errors |-> <<>>, page_errors |-> <<>>,
            ok |-> FALSE, reason |-> "playwright_not_available"]
      [] outcome = "goto_failed" ->
           [dom |-> NoDom, console_errors |-> <<>>,
            page_errors |-> <<"Timeout 10000ms exceeded">>, ok |-> FALSE]
      [] outcome = "console_error" ->
           [dom |-> loaded, console_errors |-> <<"Uncaught ReferenceError">>,
            page_errors |-> <<>>, ok |-> TRUE]
      [] OTHER ->
           [dom |-> loaded, console_errors |-> <<>>, page_errors |-> <<>>, ok |-> TRUE]

\* ------------------------------------------------------------------------
\* The conditional edges of build_graph
\* ------------------------------------------------------------------------
all_errors(v) ==
    GetList(v, "console_errors") \o GetList(v, "page_errors")
      \o GetList(v, "single_page_issues") \o GetList(v, "syntax_issues")
      \o GetList(v, "external_resource_issues")

_needs_fix_unbounded(v, attempts) ==
    IF all_errors(v) # <<>> THEN "generate" ELSE "END"

_needs_fix_off_by_one(v, attempts) ==
    IF all_errors(v) # <<>> /\ attempts <= MAX_ATTEMPTS + 1 THEN "generate" ELSE "END"

_needs_fix_below_max(v, attempts) ==
    IF all_errors(v) # <<>> /\ attempts < MAX_ATTEMPTS THEN "generate" ELSE "END"

_needs_fix(v, attempts) ==
    IF all_errors(v) # <<>> /\ attempts <= MAX_ATTEMPTS THEN "generate" ELSE "END"

\* what _needs_fix leaves in state.question: the first 10 issues behind the original
\* question when it routes to generate, the original question when it routes to END
question_after_needs_fix(v, attempts) ==
    IF _needs_fix(v, attempts) = "generate" THEN Take(all_errors(v), 10) ELSE <<>>

_route_after_check(s) ==
    IF s.is_new_page /\ s.reference_url THEN "scrape_reference" ELSE "retrieve"

_route_after_retrieve(s) ==
    IF s.needs_image_generation \/ (s.is_new_page /\ s.question # "plain")
    THEN "handle_images" ELSE "generate"

_route_after_generate(s) ==
    IF s.extracted_images /\ s.page_slug # None THEN "move_images" ELSE "enhanced_validate"

\* ------------------------------------------------------------------------
\* State
\* ------------------------------------------------------------------------
VARIABLES
    pc,              \* the graph node that runs next; idle, END or failed outside the graph
    req,             \* the ChatRequest being served and the endpoint that received it
    nreq,            \* number of requests received so far
    state,           \* the GraphState threaded through the nodes
    generate_calls,  \* executions of the generate node in the current run
    llm_calls,       \* llm.invoke calls issued in the current run
    embed_calls,     \* embeddings.create calls issued in the current run
    first_ok,        \* the 'ok' of the run's first validation (None before it)
    last_validated,  \* the answer the latest validation of the run examined
    last_loaded,     \* the document the browser loaded in the latest validation
    last_outcome,    \* how the latest browser validation went
    provider_error,  \* the provider call that raised in the current run, if any
    pages,           \* pages/<slug>/index.html
    versions,        \* pages/<slug>/versions/v.<n>.html
    saves,           \* _save_version_and_write_current calls of the current request
    runs,            \* the runs table
    events,          \* the server-sent events of the current /api/chat/stream response
    response,        \* what the current request returned to its client
    active,          \* ReloadWebSocketManager.active
    store,           \* the committed rows of the documents table
    next_id,         \* the serial of documents.id
    tx,              \* per database session: the open transaction of upsert_chunks
    upserts,         \* number of upsert_chunks calls so far
    last_committed,  \* the upsert_chunks call that committed last
    last_read,       \* what the latest read of a slug returned
    prompt,          \* the request the generate call that has just run sent to the model
    search_in,       \* the arguments of a search call
    search_out,      \* what the search call returned
    version_log,     \* every (slug, n, content) that was ever written as versions/v.<n>.html
    bc,              \* per task: the broadcast_reload call it is in
    accepted,        \* the websockets connect() has accepted so far
    disconnected,    \* the websockets disconnect() was called for by the endpoint
    send_failed      \* the websockets whose send_text raised in a broadcast_reload

vars ==
    <<pc, req, nreq, state, generate_calls, llm_calls, embed_calls, first_ok,
      last_validated, last_loaded, last_outcome, provider_error, pages, versions, saves, runs, events,
      response, active, store, next_id, tx, upserts, last_committed, last_read,
      prompt, search_in, search_out, version_log, bc, accepted, disconnected, send_failed>>

search_vars == <<search_in, search_out>>

ws_vars == <<bc, accepted, disconnected, send_failed>>

store_vars == <<store, next_id, tx, upserts, last_committed, last_read>>

pipeline_vars ==
    <<pc, req, nreq, state, generate_calls, llm_calls, embed_calls, first_ok,
      last_validated, last_loaded, last_outcome, provider_error, pages, versions, saves,
      runs, events, response, active, prompt, version_log>>

run_vars == <<generate_calls, llm_calls, embed_calls, first_ok, last_validated,
              last_loaded, last_outcome, provider_error>>

disk_vars == <<pages, versions, saves, version_log>>

Sessions == {"s1", "s2"}

StoreSlugs == {"home", "about"}

MaxChunks == 2

MaxUpserts == 3

NoTx ==
    [phase |-> "idle", slug |-> None, call |-> 0, n |-> 0, targets |-> {}, deleted |-> {},
     overlapped |-> FALSE]

NoCommit == [slug |-> None, call |-> 0, n |-> 0, overlapped |-> FALSE]

NoRead == [slug |-> None, rows |-> {}]

RefKinds == {"none", "url", "url_extract_images"}

NoRequest == [endpoint |-> None, message |-> "plain", page_slug |-> None, reference |-> "none"]

NoResponse == [status |-> 0, saved |-> FALSE, answer |-> NoAnswer, validation |-> EmptyDict]

\* GraphState(...) as the handlers construct it
GraphState(message, slug, reference) ==
    [question |-> message,
     page_slug |-> slug,
     answer |-> NoAnswer,
     timings |-> {},
     validation |-> EmptyDict,
     validation_attempts |-> 0,
     is_new_page |-> FALSE,
     reference_url |-> (reference # "none"),
     extract_images |-> (reference = "url_extract_images"),
     scraped_data |-> FALSE,
     fix_errors |-> <<>>,
     extracted_images |-> FALSE,
     needs_image_generation |-> (message \in {"generate_image", "image_tool"})]

Tasks == {"t1", "t2"}

NoBroadcast == [at |-> "idle", todo |-> {}, stale |-> {}, sent |-> {}]

NoPrompt ==
    [model |-> None, system |-> None, task_errors |-> {<<>>}, known_errors |-> <<>>,
     prior_issues |-> <<>>]

\* everything but the pages directory
StartInit ==
    /\ pc = "idle"
    /\ req = NoRequest
    /\ nreq = 0
    /\ state = GraphState("plain", None, "none")
    /\ generate_calls = 0
    /\ llm_calls = 0
    /\ embed_calls = 0
    /\ first_ok = None
    /\ last_validated = NoAnswer
    /\ last_loaded = AbsentPage
    /\ last_outcome = None
    /\ provider_error = None
    /\ versions = [s \in Slugs |-> {}]
    /\ saves = 0
    /\ runs = <<>>
    /\ events = <<>>
    /\ response = NoResponse
    /\ active = {}
    /\ store = {}
    /\ next_id = 1
    /\ tx = [w \in Sessions |-> NoTx]
    /\ upserts = 0
    /\ last_committed = NoCommit
    /\ last_read = NoRead
    /\ prompt = NoPrompt
    /\ version_log = {}
    /\ bc = [t \in Tasks |-> NoBroadcast]
    /\ accepted = {}
    /\ disconnected = {}
    /\ send_failed = {}

BaseInit ==
    /\ StartInit
    /\ pages \in [Slugs -> {AbsentPage, OrigPage}]

NoSearch == [fn |-> None, calls |-> 0]

Init ==
    /\ BaseInit
    /\ search_in = NoSearch
    /\ search_out = NoSearch

\* ------------------------------------------------------------------------
\* The handlers receive a request and start the graph
\* ------------------------------------------------------------------------
StartRequest ==
    /\ UNCHANGED <<store_vars, search_vars, ws_vars>>
    /\ prompt' = NoPrompt
    /\ pc = "idle"
    /\ nreq < MaxRequests
    /\ \E e \in Endpoints, m \in QuestionKinds, s \in Slugs \cup {None}, r \in RefKinds :
         /\ req' = [endpoint |-> e, message |-> m, page_slug |-> s, reference |-> r]
         /\ state' = GraphState(m, s, r)
         /\ events' = IF e = "chat_stream" THEN <<"started", "phase">> ELSE <<>>
    /\ nreq' = nreq + 1
    /\ pc' = "check_page_status"
    /\ generate_calls' = 0
    /\ llm_calls' = 0
    /\ embed_calls' = 0
    /\ first_ok' = None
    /\ last_validated' = NoAnswer
    /\ last_loaded' = AbsentPage
    /\ last_outcome' = None
    /\ provider_error' = None
    /\ saves' = 0
    /\ response' = NoResponse
    /\ UNCHANGED <<pages, versions, runs, active, version_log>>

\* No node wraps its embedding, search or chat-completion call in a try block and
\* the graph is compiled without a retry policy: the exception leaves invoke()
ProviderErrorPc_rerun_node(node) == node

ProviderErrorPc(node) == "failed"

\* ------------------------------------------------------------------------
\* The nodes of the graph; each one ends with the edge that follows it
\* ------------------------------------------------------------------------
PageExists(s) == pages[s].kind # "absent"

_check_page_status ==
    /\ UNCHANGED <<store_vars, search_vars, ws_vars, prompt>>
    /\ pc = "check_page_status"
    /\ LET new == IF state.page_slug # None THEN ~PageExists(state.page_slug) ELSE TRUE
           s1 == [state EXCEPT !.is_new_page = new,
                               !.timings = state.timings \cup {"check_page_ms"}]
       IN /\ state' = s1
          /\ pc' = _route_after_check(s1)
    /\ UNCHANGED <<req, nreq, run_vars, disk_vars, runs, events, response, active>>

\* asyncio.get_event_loop() raises in the worker thread that /api/chat/stream
\* runs the graph in; the wrappers catch that and return the state as it is
WrapperRuns == req.endpoint = "chat"

_scrape_reference ==
    /\ UNCHANGED <<store_vars, search_vars, ws_vars, prompt>>
    /\ pc = "scrape_reference"
    /\ IF WrapperRuns /\ state.reference_url /\ state.is_new_page
       THEN \E outcome \in {"error", "scraped", "scraped_with_images"} :
              state' = [state EXCEPT
                          !.scraped_data = TRUE,
                          !.extracted_images =
                              (state.extract_images /\ outcome = "scraped_with_images"),
                          !.timings = state.timings \cup {"scrape_ms"}]
       ELSE state' = state
    /\ pc' = "retrieve"
    /\ UNCHANGED <<req, nreq, run_vars, disk_vars, runs, events, response, active>>

_retrieve ==
    /\ UNCHANGED <<store_vars, search_vars, ws_vars, prompt>>
    /\ pc = "retrieve"
    /\ embed_calls' = embed_calls + 1
    /\ \E outcome \in {"ok", "embedding_error", "search_error"} :
         IF outcome = "ok"
         THEN LET s1 == [state EXCEPT !.timings = {"embed_ms", "retrieve_ms", "rerank_ms"}]
              IN /\ state' = s1
                 /\ pc' = _route_after_retrieve(s1)
              /\ provider_error' = provider_error
         ELSE /\ state' = state
              /\ pc' = ProviderErrorPc("retrieve")
              /\ provider_error' = outcome
    /\ UNCHANGED <<req, nreq, generate_calls, llm_calls, first_ok, last_validated,
                   last_loaded, last_outcome, disk_vars, runs, events, response, active>>

_handle_images ==
    /\ UNCHANGED <<store_vars, search_vars, ws_vars, prompt>>
    /\ pc = "handle_images"
    /\ IF WrapperRuns /\ state.needs_image_generation
       THEN \E generated \in BOOLEAN :
              state' = [state EXCEPT
                          !.extracted_images = (state.extracted_images \/ generated),
                          !.timings = state.timings \cup {"images_ms"}]
       ELSE state' = state
    /\ pc' = "generate"
    /\ UNCHANGED <<req, nreq, run_vars, disk_vars, runs, events, response, active>>

\* "gpt-4o-mini" if is_existing_page else "gpt-5": index.html is looked up again
selected_model(slug) == IF slug # None /\ PageExists(slug) THEN "gpt-4o-mini" ELSE "gpt-5"

\* the system prompt follows is_new_page, as set by _check_page_status
system_prompt(s) ==
    IF s.is_new_page /\ s.scraped_data THEN "new_from_reference"
    ELSE IF s.is_new_page THEN "new"
    ELSE "edit"

\* "Known client errors to fix (from browser validation)": errors[:10]
known_errors(s) ==
    IF s.page_slug # None
    THEN Take(GetList(s.validation, "console_errors") \o GetList(s.validation, "page_errors"), 10)
    ELSE <<>>

\* the messages of llm.invoke. "Task: {state.question}" carries what _needs_fix
\* appended to the question if the graph library hands the object a router wrote
\* to on to the next node, and the question as the last node returned it if the
\* library builds the node's state anew: task_errors holds both outcomes. Nothing
\* in the run reads the prompt back, so the outcome changes no later step
BuildPrompt(s) ==
    [model |-> selected_model(s.page_slug),
     system |-> system_prompt(s),
     task_errors |-> {s.fix_errors, <<>>},
     known_errors |-> known_errors(s),
     prior_issues |-> all_errors(s.validation)]

NewAnswer(k) ==
    [id |-> <<nreq, generate_calls + 1>>, kind |-> k, reload |-> FALSE, eol |-> "lf"]

_generate ==
    /\ UNCHANGED <<store_vars, search_vars, ws_vars>>
    /\ pc = "generate"
    /\ generate_calls < MaxGenerateCalls
    /\ generate_calls' = generate_calls + 1
    /\ IF state.question = "image_tool"
       THEN \* the image tool shortcut: no chat completion, errors end up in the answer
            LET s1 == [state EXCEPT !.answer = NewAnswer("text")]
            IN /\ state' = s1
               /\ pc' = _route_after_generate(s1)
               /\ llm_calls' = llm_calls
               /\ provider_error' = provider_error
               /\ prompt' = prompt
       ELSE /\ llm_calls' = llm_calls + 1
            /\ prompt' = BuildPrompt(state)
            /\ \/ \E k \in AnswerKinds :
                    LET s1 == [state EXCEPT !.answer = NewAnswer(k),
                                            !.timings = state.timings \cup {"generate_ms"}]
                    IN /\ state' = s1
                       /\ pc' = _route_after_generate(s1)
                       /\ provider_error' = provider_error
               \/ \* llm.invoke raises
                  /\ state' = state
                  /\ pc' = ProviderErrorPc("generate")
                  /\ provider_error' = "generation_error"
    /\ UNCHANGED <<req, nreq, embed_calls, first_ok, last_validated, last_loaded,
                   last_outcome, disk_vars, runs, events, response, active>>

_move_images_to_page_dir ==
    /\ UNCHANGED <<store_vars, search_vars, ws_vars>>
    /\ prompt' = NoPrompt
    /\ pc = "move_images"
    /\ IF state.page_slug = None \/ ~state.extracted_images
       THEN state' = state
       ELSE state' = [state EXCEPT !.timings = state.timings \cup {"move_images_ms"}]
    /\ pc' = "enhanced_validate"
    /\ UNCHANGED <<req, nreq, run_vars, disk_vars, runs, events, response, active>>

\* _needs_fix is a router and changes state.question in place, on the state object
\* it was handed
RouterWrites(s) ==
    [s EXCEPT !.fix_errors = question_after_needs_fix(s.validation, s.validation_attempts)]

_enhanced_validate ==
    /\ UNCHANGED <<store_vars, search_vars, ws_vars>>
    /\ prompt' = NoPrompt
    /\ pc = "enhanced_validate"
    /\ IF state.page_slug = None
       THEN /\ state' = RouterWrites(state)
            /\ pc' = _needs_fix(state.validation, state.validation_attempts)
            /\ UNCHANGED <<first_ok, last_validated, last_loaded, last_outcome>>
       ELSE \E outcome \in BrowserOutcomes :
              LET loaded == pages[state.page_slug]
                  result == DictUpdate(static_validation_result(state.answer),
                                       validate_page_with_playwright(outcome, loaded))
                  s1 == [state EXCEPT
                           !.validation = result,
                           !.validation_attempts = state.validation_attempts + 1,
                           !.timings = state.timings \cup {"enhanced_validate_ms"}]
              IN /\ state' = RouterWrites(s1)
                 /\ pc' = _needs_fix(s1.validation, s1.validation_attempts)
                 /\ first_ok' = IF first_ok = None
                                THEN (IF result["ok"] THEN "true" ELSE "false")
                                ELSE first_ok
                 /\ last_validated' = state.answer
                 /\ last_loaded' = loaded
                 /\ last_outcome' = outcome
    /\ UNCHANGED <<req, nreq, generate_calls, llm_calls, embed_calls, provider_error,
                   disk_vars, runs, events, response, active>>

\* ------------------------------------------------------------------------
\* After the graph: persistence, run log, response
\* ------------------------------------------------------------------------
Max(S) == CHOOSE x \in S : \A y \in S : y <= x

next_n(vs) == (IF vs = {} THEN 0 ELSE Max({v.n : v \in vs})) + 1

\* Path.read_text(encoding="utf-8") opens the file in text mode: bytes that are
\* not UTF-8 raise UnicodeDecodeError, and universal newlines turn every "\r\n"
\* into "\n"
Decodes(f) == f.eol # "not_utf8"

read_text(f) == [f EXCEPT !.eol = "lf"]

\* Path.write_text(text, encoding="utf-8") writes "\n" as os.linesep, which is "\n"
\* on the POSIX hosts the application is run on, and leaves "\r" alone
write_text(text) == text

\* _save_version_and_write_current: the previous index.html becomes v.<next_n>,
\* then index.html is the new content followed by the reload snippet. The
\* versioning block is inside try/except Exception: pass
SavedVersions(vs, current) ==
    IF current.kind # "absent" /\ Decodes(current)
    THEN vs \cup {[n |-> next_n(vs), content |-> write_text(read_text(current))]}
    ELSE vs

\* the version files a step has written, added to the log of all version files
\* ever written
Logged(log, slug, vs_before, vs_after) ==
    log \cup {[slug |-> slug, n |-> v.n, content |-> v.content] : v \in vs_after \ vs_before}

WrittenCurrent(html) == write_text([html EXCEPT !.reload = TRUE])

\* the sanitising of chat_stream: only the <html>..</html> document is kept
Sanitized(a) == IF a.kind = "html_wrapped" THEN [a EXCEPT !.kind = "html_flat"] ELSE a

ShouldSave(a, slug) == HasHtml(a) /\ slug # None

ValidationSummary(v) ==
    IF DOMAIN v = {} THEN EmptyDict
    ELSE [console_errors |-> Take(GetList(v, "console_errors"), 10),
          page_errors |-> Take(GetList(v, "page_errors"), 10),
          single_page_issues |-> Take(GetList(v, "single_page_issues"), 5),
          syntax_issues |-> Take(GetList(v, "syntax_issues"), 5),
          external_resource_issues |-> Take(GetList(v, "external_resource_issues"), 5),
          ok |-> IF "ok" \in DOMAIN v THEN v["ok"] ELSE FALSE]

broadcast_reload_keeps_stale(conns, failing) == conns

\* broadcast_reload: every connection whose send raises is dropped
broadcast_reload(conns, failing) == conns \ failing

\* the names ingest.py binds at module level; ingest_single_page also reads
\* OpenAIEmbeddings
BoundNames ==
    {"os", "Path", "BeautifulSoup", "OpenAI", "SessionLocal", "upsert_chunks", "EMBED_MODEL",
     "OPENAI_API_KEY", "_client", "_chunk_text", "_extract_dom_chunks"}

PageChunks(slug, page, first_id) ==
    {[id |-> first_id, slug |-> slug, chunk_id |-> 0, content |-> page.id]}

\* f"{slug}__raw": the slug the raw HTML of a page is stored under
RawSlug(slug) == slug \o "__raw"

RawChunk(slug, page, id) ==
    [id |-> id, slug |-> RawSlug(slug), chunk_id |-> -1, content |-> page.id]

\* try: ingest_single_page(out_path) / except Exception: pass. The function raises
\* NameError where it reads a name that is not bound, before the first of its two
\* upsert_chunks calls (the chunks under slug, the raw HTML under slug__raw)
ingest_single_page(tbl, slug, page, first_id) ==
    IF "OpenAIEmbeddings" \in BoundNames
    THEN {r \in tbl : r.slug \notin {slug, RawSlug(slug)}}
            \cup PageChunks(slug, page, first_id)
            \cup {RawChunk(slug, page, first_id + 1)}
    ELSE tbl

Persist(answer) ==
    IF ShouldSave(answer, req.page_slug)
    THEN /\ store' = ingest_single_page(store, req.page_slug, WrittenCurrent(answer), next_id)
         /\ versions' = [versions EXCEPT ![req.page_slug] =
                            SavedVersions(versions[req.page_slug], pages[req.page_slug])]
         /\ version_log' = Logged(version_log, req.page_slug, versions[req.page_slug],
                                  versions'[req.page_slug])
         /\ pages' = [pages EXCEPT ![req.page_slug] = WrittenCurrent(answer)]
         /\ saves' = saves + 1
         /\ \E failing \in SUBSET active : active' = broadcast_reload(active, failing)
    ELSE UNCHANGED <<pages, versions, saves, active, store, version_log>>

\* the page another request has saved
OtherPage == [id |-> <<0, 1>>, kind |-> "html_flat", reload |-> TRUE, eol |-> "lf"]

\* /api/chat/stream runs the graph in a worker thread, so the server handles other
\* requests meanwhile: one of them creates the page this run works on. generate
\* is the first node after check_page_status that looks at index.html, so a save
\* at any earlier moment of the run is a save just before generate
other_request_saves ==
    /\ pc = "generate"
    /\ req.endpoint = "chat_stream"
    /\ state.page_slug # None
    /\ ~PageExists(state.page_slug)
    /\ versions' = [versions EXCEPT ![state.page_slug] =
                       SavedVersions(versions[state.page_slug], pages[state.page_slug])]
    /\ version_log' = Logged(version_log, state.page_slug, versions[state.page_slug],
                             versions'[state.page_slug])
    /\ pages' = [pages EXCEPT ![state.page_slug] = OtherPage]
    /\ \E failing \in SUBSET active : active' = broadcast_reload(active, failing)
    /\ UNCHANGED <<pc, req, nreq, state, run_vars, saves, runs, events, response>>
    /\ UNCHANGED <<store_vars, search_vars, ws_vars, prompt>>

\* /api/chat after invoke() returned
chat ==
    /\ UNCHANGED <<next_id, tx, upserts, last_committed, last_read, search_vars, ws_vars>>
    /\ prompt' = NoPrompt
    /\ pc = "END"
    /\ req.endpoint = "chat"
    /\ Persist(state.answer)
    /\ \E logged \in BOOLEAN :
         runs' = IF logged
                 THEN Append(runs, [question |-> req.message, page_slug |-> req.page_slug,
                                    answer_preview |-> state.answer.id,
                                    saved |-> ShouldSave(state.answer, req.page_slug)])
                 ELSE runs
    /\ response' = [status |-> 200, saved |-> ShouldSave(state.answer, req.page_slug),
                    answer |-> state.answer, validation |-> EmptyDict]
    /\ pc' = "idle"
    /\ UNCHANGED <<req, nreq, state, run_vars, events>>

\* /api/chat when invoke() raised: the handler has no try block around it
chat_raises ==
    /\ UNCHANGED <<store_vars, search_vars, ws_vars>>
    /\ prompt' = NoPrompt
    /\ pc = "failed"
    /\ req.endpoint = "chat"
    /\ response' = [NoResponse EXCEPT !.status = 500]
    /\ pc' = "idle"
    /\ UNCHANGED <<req, nreq, state, run_vars, disk_vars, runs, events, active>>

\* gen() of /api/chat/stream after invoke() returned
chat_stream ==
    /\ UNCHANGED <<next_id, tx, upserts, last_committed, last_read, search_vars, ws_vars>>
    /\ prompt' = NoPrompt
    /\ pc = "END"
    /\ req.endpoint = "chat_stream"
    /\ LET answer == IF HasHtml(state.answer) THEN Sanitized(state.answer) ELSE state.answer
       IN /\ Persist(answer)
          /\ response' = [status |-> 200, saved |-> ShouldSave(answer, req.page_slug),
                          answer |-> answer,
                          validation |-> ValidationSummary(state.validation)]
    /\ events' = events \o <<"completed", "done">>
    /\ pc' = "idle"
    /\ UNCHANGED <<req, nreq, state, run_vars, runs>>

\* gen() when invoke() raised: the error event, then 'answer' is read unbound
chat_stream_raises ==
    /\ UNCHANGED <<store_vars, search_vars, ws_vars>>
    /\ prompt' = NoPrompt
    /\ pc = "failed"
    /\ req.endpoint = "chat_stream"
    /\ events' = Append(events, "error")
    /\ response' = [NoResponse EXCEPT !.status = 200]
    /\ pc' = "idle"
    /\ UNCHANGED <<req, nreq, state, run_vars, disk_vars, runs, active>>

\* ------------------------------------------------------------------------
\* The chunk store: upsert_chunks in a session of its own, and readers.
\* The engine is created without an isolation level, so every statement of a
\* transaction sees the rows committed when the statement starts (READ
\* COMMITTED), and a DELETE waits for the transactions that hold its rows.
\* ------------------------------------------------------------------------
Rows(tbl, slug) == {r \in tbl : r.slug = slug}

Ids(rows) == {r.id : r \in rows}

\* rows deleted by the open transactions of the other sessions
LockedByOthers(w) == UNION {tx[o].deleted : o \in Sessions \ {w}}

\* db.execute(delete(Document).where(Document.slug == slug))
upsert_delete(w) ==
    /\ tx[w].phase = "idle"
    /\ upserts < MaxUpserts
    /\ \E slug \in StoreSlugs, n \in 0..MaxChunks :
         LET targets == Ids(Rows(store, slug))
             free == targets \ LockedByOthers(w)
         IN tx' = [tx EXCEPT ![w] =
                     [phase |-> IF free = targets THEN "deleted" ELSE "blocked",
                      slug |-> slug, call |-> upserts + 1, n |-> n,
                      targets |-> targets, deleted |-> free, overlapped |-> FALSE]]
    /\ upserts' = upserts + 1
    /\ UNCHANGED <<store, next_id, last_committed, last_read>>
    /\ UNCHANGED <<pipeline_vars, search_vars, ws_vars>>

\* the DELETE goes on once the transactions holding its rows have ended: a row
\* whose deletion was committed is skipped, a row that is back is deleted
upsert_delete_resumes(w) ==
    /\ tx[w].phase = "blocked"
    /\ (tx[w].targets \ tx[w].deleted) \cap LockedByOthers(w) = {}
    /\ tx' = [tx EXCEPT ![w].phase = "deleted",
                        ![w].deleted = tx[w].deleted \cup (tx[w].targets \cap Ids(store))]
    /\ UNCHANGED <<store, next_id, upserts, last_committed, last_read>>
    /\ UNCHANGED <<pipeline_vars, search_vars, ws_vars>>

\* the rows db.add() queued for chunks (chunk_id, content, ...), chunk_id = 0..n-1
NewRows(slug, call, n, first_id) ==
    {[id |-> first_id + i, slug |-> slug, chunk_id |-> i, content |-> <<call, n>>] :
        i \in 0..(n - 1)}

CommittedStore_replaces_table(tbl, t, first_id) ==
    NewRows(t.slug, t.call, t.n, first_id)

\* db.commit(): the delete and the queued inserts become visible together
CommittedStore(tbl, t, first_id) ==
    {r \in tbl : r.id \notin t.deleted} \cup NewRows(t.slug, t.call, t.n, first_id)

upsert_commit(w) ==
    /\ tx[w].phase = "deleted"
    /\ store' = CommittedStore(store, tx[w], next_id)
    /\ next_id' = next_id + tx[w].n
    /\ last_committed' = [slug |-> tx[w].slug, call |-> tx[w].call, n |-> tx[w].n,
                          overlapped |-> tx[w].overlapped]
    /\ tx' = [o \in Sessions |->
                IF o = w THEN NoTx
                ELSE IF tx[o].phase # "idle" /\ tx[o].slug = tx[w].slug
                     THEN [tx[o] EXCEPT !.overlapped = TRUE]   \* ran alongside a committed upsert
                     ELSE tx[o]]
    /\ UNCHANGED <<upserts, last_read>>
    /\ UNCHANGED <<pipeline_vars, search_vars, ws_vars>>

\* an exception before the commit completes: the session is closed, which rolls
\* the transaction back
upsert_raises(w) ==
    /\ tx[w].phase \in {"deleted", "blocked"}
    /\ tx' = [tx EXCEPT ![w] = NoTx]
    /\ UNCHANGED <<store, next_id, upserts, last_committed, last_read>>
    /\ UNCHANGED <<pipeline_vars, search_vars, ws_vars>>

\* a SELECT of the rows of one slug by another session
read_slug(slug) ==
    /\ last_read' = [slug |-> slug, rows |-> Rows(store, slug)]
    /\ UNCHANGED <<store, next_id, tx, upserts, last_committed>>
    /\ UNCHANGED <<pipeline_vars, search_vars, ws_vars>>

\* ingest_single_page(pages/<slug>/index.html), as on_startup, the page watcher
\* and the handlers call it after a page was written
ingest_page(slug) ==
    /\ store' = ingest_single_page(store, slug, OrigPage, next_id)
    /\ next_id' = IF store' = store THEN next_id ELSE next_id + 2
    /\ UNCHANGED <<tx, upserts, last_committed, last_read>>
    /\ UNCHANGED <<pipeline_vars, search_vars, ws_vars>>

StoreNext ==
    \/ \E slug \in StoreSlugs : ingest_page(slug)
    \/ \E w \in Sessions : upsert_delete(w)
    \/ \E w \in Sessions : upsert_delete_resumes(w)
    \/ \E w \in Sessions : upsert_commit(w)
    \/ \E w \in Sessions : upsert_raises(w)
    \/ \E slug \in StoreSlugs : read_slug(slug)

StoreSpec == Init /\ [][StoreNext]_vars

\* ------------------------------------------------------------------------
\* The searches of vectors.py, as functions of their arguments and of the rows
\* the database holds
\* ------------------------------------------------------------------------
rrf_k == 60

Docs == {"A", "B", "C"}

MaxListLen == 3

MaxK == 3

MaxCalls == 2

Range(l) == {l[i] : i \in 1..Len(l)}

Pos(d, l) == CHOOSE i \in 1..Len(l) : l[i] = d

\* a result list of a query: every row at most once
RankedLists ==
    {l \in UNION {[1..n -> Docs] : n \in 0..MaxListLen} :
        \A i, j \in 1..Len(l) : l[i] = l[j] => i = j}

\* fractions <<numerator, denominator>>, denominator > 0
RatAdd(a, b) == <<a[1] * b[2] + b[1] * a[2], a[2] * b[2]>>

RatLess(a, b) == a[1] * b[2] < b[1] * a[2]

RatZero == <<0, 1>>

rrf_term_rank_weighted(rank) == <<rank + 1, rrf_k>>

\* 1.0 / (rrf_k + rank + 1)
rrf_term(rank) == <<1, rrf_k + rank + 1>>

RECURSIVE AddRanks_overwrite(_, _, _)
AddRanks_overwrite(scores, results, i) ==
    IF i > Len(results) THEN scores
    ELSE AddRanks_overwrite([scores EXCEPT ![results[i]] = rrf_term(i - 1)], results, i + 1)

\* for rank, doc in enumerate(results): scores[doc.id] = scores.get(doc.id, 0.0) + term
RECURSIVE AddRanks(_, _, _)
AddRanks(scores, results, i) ==
    IF i > Len(results) THEN scores
    ELSE AddRanks([scores EXCEPT ![results[i]] = RatAdd(@, rrf_term(i - 1))], results, i + 1)

rrf_scores_last_list_wins(vec_results, lex_results) ==
    AddRanks_overwrite(AddRanks_overwrite([d \in Docs |-> RatZero], vec_results, 1),
                       lex_results, 1)

rrf_scores(vec_results, lex_results) ==
    AddRanks(AddRanks([d \in Docs |-> RatZero], vec_results, 1), lex_results, 1)

\* the values of the order dict: first seen first
rrf_order(vec_results, lex_results) ==
    vec_results \o SelectSeq(lex_results, LAMBDA d : d \notin Range(vec_results))

InsertDesc_ties_by_call(sorted, d, scores) ==
    LET keep == {i \in 1..Len(sorted) :
                    IF search_out = NoSearch
                    THEN ~RatLess(scores[sorted[i]], scores[d])
                    ELSE RatLess(scores[d], scores[sorted[i]])}
        n == IF keep = {} THEN 0 ELSE CHOOSE i \in keep : \A j \in keep : j <= i
    IN SubSeq(sorted, 1, n) \o <<d>> \o SubSeq(sorted, n + 1, Len(sorted))

\* sorted(..., reverse=True) is stable: d goes behind every element that does not
\* score less than it
InsertDesc(sorted, d, scores) ==
    LET keep == {i \in 1..Len(sorted) : ~RatLess(scores[sorted[i]], scores[d])}
        n == IF keep = {} THEN 0 ELSE CHOOSE i \in keep : \A j \in keep : j <= i
    IN SubSeq(sorted, 1, n) \o <<d>> \o SubSeq(sorted, n + 1, Len(sorted))

RECURSIVE SortedDesc(_, _, _)
SortedDesc(l, i, scores) ==
    IF i = 0 THEN <<>> ELSE InsertDesc(SortedDesc(l, i - 1, scores), l[i], scores)

hybrid_search_rrf(vec_results, lex_results, k_final) ==
    LET scores == rrf_scores(vec_results, lex_results)
        order == rrf_order(vec_results, lex_results)
        ranked == SortedDesc(order, Len(order), scores)
    IN Take(ranked, k_final)

\* The rows of documents as a search sees them: dist is the cosine distance of the
\* row's embedding to the query vector; embedding is nullable, and the raw-HTML row
\* that ingest_single_page builds for '<slug>__raw' has none
SearchRows ==
    {[id |-> 1, slug |-> "home", has_embedding |-> TRUE, dist |-> 1],
     [id |-> 2, slug |-> "home", has_embedding |-> TRUE, dist |-> 2],
     [id |-> 3, slug |-> "home__raw", has_embedding |-> FALSE, dist |-> 0],
     [id |-> 4, slug |-> "about", has_embedding |-> TRUE, dist |-> 0]}

\* the rows a query over 'slug' ranges over: 'if slug:' adds the filter
Corpus(table, slug) == IF slug # None THEN {r \in table : r.slug = slug} ELSE table

\* ORDER BY embedding <=> :query_embedding, ascending: rows without a distance last
Before(r1, r2) ==
    \/ r1.has_embedding /\ ~r2.has_embedding
    \/ r1.has_embedding = r2.has_embedding /\ r1.dist < r2.dist
    \/ r1.has_embedding = r2.has_embedding /\ r1.dist = r2.dist /\ r1.id < r2.id

RECURSIVE OrderedRows(_)
OrderedRows(rows) ==
    IF rows = {} THEN <<>>
    ELSE LET first == CHOOSE r \in rows : \A o \in rows \ {r} : Before(r, o)
         IN <<first>> \o OrderedRows(rows \ {first})

\* the two plans the database can run the query with: a sequential scan and sort,
\* or a scan of the ANN index. The index holds only the rows that have an embedding
\* and hands over the ef_search nearest of them; the slug filter comes after
ScanPlans == {"seq", "index"}

\* HNSW_EF_SEARCH of the environment, 100 when unset
EfSearchValues == {1, 100}

similarity_search(table, slug, k, plan, ef_search) ==
    IF plan = "index"
    THEN LET candidates == Take(OrderedRows({r \in table : r.has_embedding}), ef_search)
         IN Take(SelectSeq(candidates, LAMBDA r : r \in Corpus(table, slug)), k)
    ELSE Take(OrderedRows(Corpus(table, slug)), k)

SearchInputs ==
    {[fn |-> "hybrid_search_rrf", vec_results |-> v, lex_results |-> l, k_final |-> k] :
        v \in RankedLists, l \in RankedLists, k \in 0..MaxK}
    \cup
    {[fn |-> "similarity_search", table |-> t, slug |-> g, k |-> k, plan |-> p,
      ef_search |-> ef] :
        t \in SUBSET SearchRows, g \in {None, "home", "home__raw"}, k \in 0..MaxK,
        p \in ScanPlans, ef \in EfSearchValues}

SearchInit ==
    /\ BaseInit
    /\ search_in \in SearchInputs
    /\ search_out = NoSearch

\* the fusion is run on the two lists, and run again on the same two lists
run_hybrid_search_rrf ==
    /\ search_in.fn = "hybrid_search_rrf"
    /\ search_out.calls < MaxCalls
    /\ search_out' = [fn |-> "hybrid_search_rrf",
                      calls |-> search_out.calls + 1,
                      scores |-> rrf_scores(search_in.vec_results, search_in.lex_results),
                      result |-> hybrid_search_rrf(search_in.vec_results,
                                                   search_in.lex_results, search_in.k_final)]
    /\ UNCHANGED <<pipeline_vars, store_vars, search_in, ws_vars>>

run_similarity_search ==
    /\ search_in.fn = "similarity_search"
    /\ search_out = NoSearch
    /\ search_out' = [fn |-> "similarity_search",
                      calls |-> 1,
                      result |-> similarity_search(search_in.table, search_in.slug,
                                                   search_in.k, search_in.plan,
                                                   search_in.ef_search)]
    /\ UNCHANGED <<pipeline_vars, store_vars, search_in, ws_vars>>

SearchNext ==
    \/ run_hybrid_search_rrf
    \/ run_similarity_search

SearchSpec == SearchInit /\ [][SearchNext]_vars


Next ==
    \/ StartRequest
    \/ _check_page_status
    \/ _scrape_reference
    \/ _retrieve
    \/ _handle_images
    \/ _generate
    \/ _move_images_to_page_dir
    \/ _enhanced_validate
    \/ chat
    \/ chat_raises
    \/ chat_stream
    \/ chat_stream_raises
    \/ other_request_saves

Spec == Init /\ [][Next]_vars

\* A run's steps are taken one after the other as long as its calls return
FairSpec == Spec /\ WF_vars(Next)

\* ------------------------------------------------------------------------
\* The pages directory and the run log: the save at the end of /api/chat, the
\* version and page routes, reset_db
\* ------------------------------------------------------------------------
MaxSaves == 3

Eols == {"lf", "crlf", "not_utf8"}

\* index.html as found on disk when the server starts: pages are also edited in
\* place (_watch_pages_task re-ingests on every change), with any line ends and
\* any encoding
OnDiskPages == {[OrigPage EXCEPT !.eol = e] : e \in Eols}

\* the document a run returns: a Python str, so it has an encoding
ReturnedHtml ==
    {[id |-> <<1, saves + 1>>, kind |-> "html_flat", reload |-> FALSE, eol |-> e] :
        e \in {"lf", "crlf"}}

PagesInit ==
    /\ StartInit
    /\ pages \in [Slugs -> {AbsentPage} \cup OnDiskPages]
    /\ search_in = NoSearch
    /\ search_out = NoSearch

admin_frame ==
    UNCHANGED <<pc, req, nreq, state, run_vars, events, prompt, next_id, tx, upserts,
                last_committed, last_read, search_vars, ws_vars>>

\* /api/chat for page slug from the point where the run has returned html: the
\* save, the re-ingest, the reload broadcast and the run log
chat_after_run(slug, html) ==
    /\ saves < MaxSaves
    /\ versions' = [versions EXCEPT ![slug] = SavedVersions(versions[slug], pages[slug])]
    /\ version_log' = Logged(version_log, slug, versions[slug], versions'[slug])
    /\ pages' = [pages EXCEPT ![slug] = WrittenCurrent(html)]
    /\ store' = ingest_single_page(store, slug, WrittenCurrent(html), next_id)
    /\ saves' = saves + 1
    /\ \E failing \in SUBSET active : active' = broadcast_reload(active, failing)
    /\ \E logged \in BOOLEAN :
         runs' = IF logged
                 THEN Append(runs, [question |-> "plain", page_slug |-> slug,
                                    answer_preview |-> html.id, saved |-> TRUE])
                 ELSE runs
    /\ response' = [status |-> 200, saved |-> TRUE, answer |-> html, validation |-> EmptyDict]
    /\ admin_frame

VersionNumbers(vs) == {v.n : v \in vs}

VersionFile(vs, n) == CHOOSE v \in vs : v.n = n

\* DELETE /api/pages/version?version=current: index.html is removed and the
\* highest v.N, if there is one, becomes index.html
delete_current_version(slug) ==
    /\ IF versions[slug] = {}
       THEN /\ pages' = [pages EXCEPT ![slug] = AbsentPage]
            /\ versions' = versions
       ELSE LET best == VersionFile(versions[slug], Max(VersionNumbers(versions[slug])))
            IN /\ pages' = [pages EXCEPT ![slug] = write_text(read_text(best.content))]
               /\ versions' = [versions EXCEPT ![slug] = versions[slug] \ {best}]
    /\ store' = IF pages'[slug].kind # "absent"
                THEN ingest_single_page(store, slug, pages'[slug], next_id)
                ELSE store
    /\ response' = [NoResponse EXCEPT !.status = 200]
    /\ UNCHANGED <<saves, version_log, runs, active>>
    /\ admin_frame

\* DELETE /api/pages/version?version=v.<n>
delete_numbered_version(slug, n) ==
    /\ IF n \in VersionNumbers(versions[slug])
       THEN /\ versions' = [versions EXCEPT ![slug] =
                               versions[slug] \ {VersionFile(versions[slug], n)}]
            /\ response' = [NoResponse EXCEPT !.status = 200]
       ELSE /\ versions' = versions
            /\ response' = [NoResponse EXCEPT !.status = 404]
    /\ UNCHANGED <<pages, saves, version_log, runs, active, store>>
    /\ admin_frame

\* the version parameter: "current", or "v.<n>" as re.match(r"^v\.(\d+)$") reads it
VersionNames == {[name |-> "current", n |-> 0]} \cup {[name |-> "v", n |-> n] : n \in 1..MaxSaves}

delete_page_version(slug, version) ==
    IF version.name = "current"
    THEN delete_current_version(slug)
    ELSE delete_numbered_version(slug, version.n)

\* DELETE /api/pages: the directory, the page's rows of documents and the page's
\* rows of runs
delete_page_api(slug) ==
    /\ pages' = [pages EXCEPT ![slug] = AbsentPage]
    /\ versions' = [versions EXCEPT ![slug] = {}]
    /\ store' = {r \in store : r.slug # slug}
    /\ runs' = SelectSeq(runs, LAMBDA r : r.page_slug # slug)
    /\ response' = [NoResponse EXCEPT !.status = 200]
    /\ UNCHANGED <<saves, version_log, active>>
    /\ admin_frame

\* GET /api/versions: "current" if index.html exists, the numbered versions, and
\* the label of the current content, v.<latest + 1>
list_versions(slug) ==
    /\ response' = [status |-> 200,
                    has_current |-> PageExists(slug),
                    versions |-> VersionNumbers(versions[slug]),
                    current |-> (IF versions[slug] = {} THEN 0
                                 ELSE Max(VersionNumbers(versions[slug]))) + 1]
    /\ UNCHANGED <<pages, versions, saves, version_log, runs, active, store>>
    /\ admin_frame

\* reset_db(): DROP TABLE runs, DROP TABLE documents, then init_db()
reset_db ==
    /\ runs' = <<>>
    /\ store' = {}
    /\ response' = NoResponse
    /\ UNCHANGED <<pages, versions, saves, version_log, active>>
    /\ admin_frame

PagesNext ==
    \/ \E slug \in Slugs, html \in ReturnedHtml : chat_after_run(slug, html)
    \/ \E slug \in Slugs, version \in VersionNames : delete_page_version(slug, version)
    \/ \E slug \in Slugs : delete_page_api(slug)
    \/ \E slug \in Slugs : list_versions(slug)
    \/ reset_db

PagesSpec == PagesInit /\ [][PagesNext]_vars

\* ------------------------------------------------------------------------
\* ReloadWebSocketManager: the /ws endpoint and broadcast_reload, which the
\* handlers and the page watcher await; every await lets the other coroutines run
\* ------------------------------------------------------------------------
Conns == {"w1", "w2"}

WsInit ==
    /\ StartInit
    /\ pages = [s \in Slugs |-> AbsentPage]
    /\ search_in = NoSearch
    /\ search_out = NoSearch

ws_frame ==
    UNCHANGED <<pc, req, nreq, state, run_vars, disk_vars, runs, events, response, prompt,
                store_vars, search_vars>>

\* connect(ws): await ws.accept(), then self.active.add(ws)
connect(ws) ==
    /\ ws \notin accepted
    /\ \E accept_raises \in BOOLEAN :
         IF accept_raises
         THEN UNCHANGED <<active, accepted>>
         ELSE /\ accepted' = accepted \cup {ws}
              /\ active' = active \cup {ws}
    /\ UNCHANGED <<bc, disconnected, send_failed>>
    /\ ws_frame

\* disconnect(ws): self.active.discard(ws)
disconnect(conns, ws) == conns \ {ws}

\* websocket_endpoint leaves its receive loop: on WebSocketDisconnect it calls
\* disconnect(ws), on any other exception of receive_text it does not
websocket_endpoint_ends(ws) ==
    /\ ws \in accepted
    /\ ws \notin disconnected
    /\ \E exc \in {"WebSocketDisconnect", "other"} :
         IF exc = "WebSocketDisconnect"
         THEN /\ active' = disconnect(active, ws)
              /\ disconnected' = disconnected \cup {ws}
         ELSE UNCHANGED <<active, disconnected>>
    /\ UNCHANGED <<bc, accepted, send_failed>>
    /\ ws_frame

\* broadcast_reload, up to its first await: list(self.active) is taken
broadcast_reload_starts(t) ==
    /\ bc[t].at = "idle"
    /\ bc' = [bc EXCEPT ![t] = [at |-> "sending", todo |-> active, stale |-> {}, sent |-> {}]]
    /\ UNCHANGED <<active, accepted, disconnected, send_failed>>
    /\ ws_frame

\* one turn of the loop: await ws.send_text("reload") returns or raises
broadcast_reload_sends(t, ws) ==
    /\ bc[t].at = "sending"
    /\ ws \in bc[t].todo
    /\ \E send_raises \in BOOLEAN :
         IF send_raises
         THEN /\ bc' = [bc EXCEPT ![t].todo = @ \ {ws}, ![t].stale = @ \cup {ws}]
              /\ send_failed' = send_failed \cup {ws}
         ELSE /\ bc' = [bc EXCEPT ![t].todo = @ \ {ws}, ![t].sent = @ \cup {ws}]
              /\ send_failed' = send_failed
    /\ UNCHANGED <<active, accepted, disconnected>>
    /\ ws_frame

\* after the loop: disconnect(ws) for every ws in stale, no await in between
broadcast_reload_ends(t) ==
    /\ bc[t].at = "sending"
    /\ bc[t].todo = {}
    /\ active' = broadcast_reload(active, bc[t].stale)
    /\ bc' = [bc EXCEPT ![t] = [NoBroadcast EXCEPT !.stale = bc[t].stale,
                                                  !.sent = bc[t].sent]]
    /\ UNCHANGED <<accepted, disconnected, send_failed>>
    /\ ws_frame

WsNext ==
    \/ \E ws \in Conns : connect(ws)
    \/ \E ws \in Conns : websocket_endpoint_ends(ws)
    \/ \E t \in Tasks : broadcast_reload_starts(t)
    \/ \E t \in Tasks, ws \in Conns : broadcast_reload_sends(t, ws)
    \/ \E t \in Tasks : broadcast_reload_ends(t)

WsSpec == WsInit /\ [][WsNext]_vars

\* ------------------------------------------------------------------------
\* Properties of the pipeline and of the handlers
\* ------------------------------------------------------------------------
static_issues(v) ==
    GetList(v, "single_page_issues") \o GetList(v, "syntax_issues")
      \o GetList(v, "external_resource_issues")

browser_issues(v) == GetList(v, "console_errors") \o GetList(v, "page_errors")

\* the retry edge has just been taken, or the run has reached END
JustRouted == pc \in {"generate", "END"} /\ last_outcome # None

\* C1: in any run, whatever the validations report, the generate node executes at
\* most 4 times: the first call and at most MAX_ATTEMPTS = 3 retries.
C1_RetryBound == generate_calls <= MAX_ATTEMPTS + 1

C1_Witness ==
    /\ pc = "END"
    /\ generate_calls = MAX_ATTEMPTS + 1
    /\ state.validation_attempts = MAX_ATTEMPTS + 1

\* C2: every run that has started reaches END unless one of its provider calls
\* raises, also when every validation of the run reports errors.
C2_RunTerminates == (pc = "check_page_status") ~> (pc = "END" \/ provider_error # None)

C2_Witness ==
    /\ pc = "END"
    /\ provider_error = None
    /\ all_errors(state.validation) # <<>>
    /\ first_ok = "false"

\* C3: when the first validation of a run reports ok = true, the run ends after
\* exactly one generate call and with validation_attempts = 0.
C3_FirstOkEndsWithCounterZero ==
    (pc = "END" /\ first_ok = "true")
        => (generate_calls = 1 /\ state.validation_attempts = 0)

\* C4: an answer without '<html' is never validated and never written as a page.
C4_NoHtmlNeverValidatedNorPersisted ==
    /\ last_validated # NoAnswer => HasHtml(last_validated)
    /\ \A s \in Slugs : pages[s].kind # "absent" => HasHtml(pages[s])

\* C5 as stated: when the browser dependency is unavailable the validation carries
\* the unavailable marker and the run ends without a retry.
C5_UnavailableEndsRun ==
    (JustRouted /\ last_outcome = "unavailable")
        => /\ "reason" \in DOMAIN state.validation
           /\ state.validation["reason"] = "playwright_not_available"
           /\ pc = "END"

\* C5 as amended: when the browser dependency is unavailable the validation does
\* not fail, carries the unavailable marker and no console or page error; the
\* retry decision then counts the static issues of the answer alone: the run ends
\* when there are none, and retries when there are some and attempts remain.
C5_UnavailableCountsStaticIssuesOnly ==
    (JustRouted /\ last_outcome = "unavailable")
        => /\ "reason" \in DOMAIN state.validation
           /\ state.validation["reason"] = "playwright_not_available"
           /\ browser_issues(state.validation) = <<>>
           /\ (pc = "generate") <=>
                 (static_issues(state.validation) # <<>>
                  /\ state.validation_attempts <= MAX_ATTEMPTS)

C5_Witness ==
    /\ pc = "END"
    /\ last_outcome = "unavailable"
    /\ generate_calls = 1
    /\ state.validation_attempts = 1
    /\ state.validation["reason"] = "playwright_not_available"

\* C6: each browser validation of a generated HTML document loads that document:
\* it has been saved as the page before the browser opens the page.
C6_ValidationLoadsGeneratedDocument ==
    (last_outcome \in {"clean", "console_error"} /\ HasHtml(last_validated))
        => last_loaded.id = last_validated.id

\* C7: once an embedding, search or generation call has raised, the run takes no
\* further step: no provider call is issued again, no node runs, nothing has been
\* or is persisted, and the handler passes the failure on (HTTP 500, or the
\* 'error' event of the stream).
C7_ProviderFailureStops ==
    [][(provider_error # None /\ pc # "idle")
         => /\ pc = "failed"
            /\ saves = 0
            /\ pc' = "idle"
            /\ UNCHANGED <<state, generate_calls, llm_calls, embed_calls, pages, versions,
                           saves, runs>>
            /\ \/ response'.status = 500
               \/ (events' # <<>> /\ events'[Len(events')] = "error")]_vars

C7_Witness ==
    /\ pc = "idle"
    /\ provider_error = "generation_error"
    /\ generate_calls = 2
    /\ response.status = 500

\* C8: a failure of the browser validation itself (navigation error, time-out)
\* never sends the run back to generate.
C8_BrowserFailureNotRetried ==
    ~(/\ pc = "generate"
      /\ last_outcome = "goto_failed"
      /\ static_issues(state.validation) = <<>>)

\* C9: when a run ends at the retry ceiling with issues outstanding, the response
\* carries the last generated answer and the payload of the last validation.
C9_ExhaustedRunReturnsValidation ==
    (/\ pc = "idle"
     /\ response.status = 200
     /\ state.validation_attempts = MAX_ATTEMPTS + 1
     /\ all_errors(state.validation) # <<>>)
        => /\ response.answer.id = state.answer.id
           /\ DOMAIN response.validation # {}
           /\ all_errors(response.validation) = all_errors(state.validation)

\* ------------------------------------------------------------------------
\* Properties of the chunk store
\* ------------------------------------------------------------------------
ChunkSet(rows) == {<<r.chunk_id, r.content>> : r \in rows}

\* the chunks of one upsert_chunks call, all of them and nothing else
CompleteSet(rows) ==
    \/ rows = {}
    \/ \E r \in rows :
         /\ ChunkSet(rows) = {<<i, r.content>> : i \in 0..(r.content[2] - 1)}
         /\ Cardinality(rows) = r.content[2]

\* C10: right after an upsert_chunks call commits, the rows of its slug are
\* exactly its chunks; and every read of a slug returns the complete chunk set of
\* one upsert_chunks call (the old set or the new set), never a mix.
C10_UpsertReplacesAtomically ==
    /\ last_committed.call # 0 =>
          /\ ChunkSet(Rows(store, last_committed.slug)) =
                {<<i, <<last_committed.call, last_committed.n>>>> :
                    i \in 0..(last_committed.n - 1)}
          /\ Cardinality(Rows(store, last_committed.slug)) = last_committed.n
    /\ CompleteSet(last_read.rows)

\* C11: in every reachable state of the store no two rows of one slug carry the
\* same chunk_id, whatever ingests and upserts ran, concurrent ones included.
C11_ChunkIdsUniquePerSlug ==
    \A r1, r2 \in store :
        (r1.slug = r2.slug /\ r1.chunk_id = r2.chunk_id) => r1.id = r2.id

\* C12: when the upsert that committed last ran alongside another upsert of the
\* same slug that committed too, the slug holds exactly the rows of the last one
\* and no row of the other.
C12_LastCommittedWins ==
    last_committed.overlapped =>
        /\ \A r \in Rows(store, last_committed.slug) : r.content[1] = last_committed.call
        /\ Cardinality(Rows(store, last_committed.slug)) = last_committed.n

\* ------------------------------------------------------------------------
\* Properties of the searches
\* ------------------------------------------------------------------------
\* the contribution of one list to a chunk's fused score
Contribution(d, l) == IF d \in Range(l) THEN <<1, rrf_k + (Pos(d, l) - 1) + 1>> ELSE RatZero

FusedScore(d, vec_results, lex_results) ==
    RatAdd(Contribution(d, vec_results), Contribution(d, lex_results))

RatEq(a, b) == a[1] * b[2] = b[1] * a[2]

Min(a, b) == IF a < b THEN a ELSE b

\* C13: hybrid_search_rrf scores every chunk with the sum of 1/(K + rank + 1) over
\* the lists that contain it, returns no chunk twice, returns the k_final best
\* scored chunks in descending order of score, and for [A, B, C], [B, A] and
\* k_final = 2 returns the set {A, B}.
C13_RrfTopKByFusedScore ==
    search_out.fn = "hybrid_search_rrf" =>
        LET v == search_in.vec_results
            l == search_in.lex_results
            res == search_out.result
            F(d) == FusedScore(d, v, l)
        IN /\ \A d \in Docs : RatEq(search_out.scores[d], F(d))
           /\ \A i, j \in 1..Len(res) : res[i] = res[j] => i = j
           /\ Range(res) \subseteq Range(v) \cup Range(l)
           /\ Len(res) = Min(search_in.k_final, Cardinality(Range(v) \cup Range(l)))
           /\ \A i, j \in 1..Len(res) : i < j => ~RatLess(F(res[i]), F(res[j]))
           /\ \A d \in (Range(v) \cup Range(l)) \ Range(res) :
                 \A e \in Range(res) : ~RatLess(F(e), F(d))
           /\ (v = <<"A", "B", "C">> /\ l = <<"B", "A">> /\ search_in.k_final = 2)
                 => Range(res) = {"A", "B"}

C13_Witness ==
    /\ search_out.fn = "hybrid_search_rrf"
    /\ search_in.vec_results = <<"A", "B", "C">>
    /\ search_in.lex_results = <<"B", "A">>
    /\ search_in.k_final = 2
    /\ Range(search_out.result) = {"A", "B"}
    /\ RatEq(search_out.scores["A"], <<123, 3782>>)

\* the list with d moved forward to position p
MovedTo(l, d, p) ==
    LET rest == SelectSeq(l, LAMBDA x : x # d)
    IN SubSeq(rest, 1, p - 1) \o <<d>> \o SubSeq(rest, p, Len(rest))

\* C14: moving a chunk to a better rank in one of the two lists, the other list
\* unchanged, never lowers the fused score the function gives it.
C14_RrfMonotonic ==
    search_out.fn = "hybrid_search_rrf" =>
        LET v == search_in.vec_results
            l == search_in.lex_results
        IN /\ \A d \in Range(v) : \A p \in 1..(Pos(d, v) - 1) :
                 ~RatLess(rrf_scores(MovedTo(v, d, p), l)[d], rrf_scores(v, l)[d])
           /\ \A d \in Range(l) : \A p \in 1..(Pos(d, l) - 1) :
                 ~RatLess(rrf_scores(v, MovedTo(l, d, p))[d], rrf_scores(v, l)[d])

C14_Witness ==
    /\ search_out.fn = "hybrid_search_rrf"
    /\ search_in.vec_results = <<"B", "C", "A">>
    /\ search_in.lex_results = <<"A">>
    /\ RatLess(search_out.scores["A"],
               rrf_scores(MovedTo(search_in.vec_results, "A", 1), search_in.lex_results)["A"])

\* C15: similarity_search with k not above the size of the searched corpus (the
\* rows of the slug, or all rows without a slug) returns exactly k rows of that
\* corpus in order of non-decreasing cosine distance to the query.
C15_SimilaritySearchReturnsKNearest ==
    (/\ search_out.fn = "similarity_search"
     /\ search_in.k <= Cardinality(Corpus(search_in.table, search_in.slug)))
        => LET res == search_out.result
           IN /\ Len(res) = search_in.k
              /\ Range(res) \subseteq Corpus(search_in.table, search_in.slug)
              /\ \A i, j \in 1..Len(res) : i < j =>
                    /\ res[i].has_embedding /\ res[j].has_embedding
                    /\ res[i].dist <= res[j].dist

\* C16: the validation result that enhanced validation stores has ok = true only
\* when all five issue lists are empty.
C16_OkOnlyWithoutIssues ==
    ("ok" \in DOMAIN state.validation /\ state.validation["ok"] = TRUE)
        => all_errors(state.validation) = <<>>

\* C17: a generate call that follows a validation with issues sends the model a
\* prompt that lists those issues verbatim, the first 10 of them, whichever way
\* the graph library treats the router's write to the question.
C17_RetryPromptListsIssues ==
    prompt.prior_issues # <<>> =>
        \A task \in prompt.task_errors :
            \/ task = Take(prompt.prior_issues, 10)
            \/ prompt.known_errors = Take(prompt.prior_issues, 10)

\* C18: every generate call pairs the edit prompt (is_new_page false) with the
\* lighter model and the new-page prompt (is_new_page true) with the heavier one,
\* also when another request saves the page during the run.
C18_ModelFollowsPageStatus ==
    prompt.model # None =>
        /\ prompt.system = "edit" => prompt.model = "gpt-4o-mini"
        /\ prompt.system \in {"new", "new_from_reference"} => prompt.model = "gpt-5"

C20_SavedPageIsReingested ==
    (pc = "idle" /\ response.status = 200 /\ response.saved)
        => /\ Rows(store, req.page_slug) # {}
           /\ \A r \in Rows(store, req.page_slug) : r.content = response.answer.id

\* C21: a step changes the chunks stored for a slug only if it commits an upsert
\* of that slug: ingesting or upserting one page leaves the chunks of every other
\* page as they were.
C21_OtherSlugsUnchanged ==
    [][\A slug \in StoreSlugs :
          (last_committed' = last_committed \/ last_committed'.slug # slug)
             => Rows(store', slug) = Rows(store, slug)]_vars

\* an upsert of "home" has committed while chunks of "about" written by an earlier
\* call were stored, and those chunks are still there
C21_Witness ==
    /\ last_committed.slug = "home"
    /\ last_committed.n > 0
    /\ \E r \in Rows(store, "about") : r.content[1] < last_committed.call

\* C22: when a chat request has been answered, through /api/chat or through
\* /api/chat/stream, the run log holds exactly one record for each request
\* received so far.
C22_OneRunPerRequest ==
    pc = "idle" => Len(runs) = nreq

\* C23: the run log only grows: every step leaves the records written so far in
\* the log, unchanged and in their places.
C23_RunLogAppendOnly ==
    [][Len(runs') >= Len(runs) /\ SubSeq(runs', 1, Len(runs)) = runs]_vars

\* C24: within a run no step removes a timing entry: the entries recorded so far
\* are still in the state after every step of the run.
C24_TimingsAccumulate ==
    [][pc # "idle" => state.timings \subseteq state'.timings]_vars

C26_RetryQuestionHasLatestIssuesOnly ==
    /\ prompt.prior_issues # <<>> =>
          \A task \in prompt.task_errors : task = Take(prompt.prior_issues, 10)
    /\ pc = "END" => state.fix_errors = <<>>

\* C27: a save over an existing index.html adds exactly one version file: it holds
\* the previous content of index.html as it was, its number is one above the
\* highest existing number, and the version files that existed stay as they were.
C27_SaveKeepsPreviousAsNextVersion ==
    [][\A slug \in Slugs :
          (saves' = saves + 1 /\ pages'[slug] # pages[slug] /\ PageExists(slug)) =>
             \E k \in 1..(MaxSaves + 1) :
                /\ \A v \in versions[slug] : v.n < k
                /\ k = 1 \/ \E v \in versions[slug] : v.n = k - 1
                /\ versions'[slug] =
                      versions[slug] \cup {[n |-> k, content |-> pages[slug]]}]_vars

\* C28: of all version files ever written for a slug, no two have the same name
\* v.N and different contents.
C28_VersionNameNeverReused ==
    \A a, b \in version_log :
        (a.slug = b.slug /\ a.n = b.n) => a.content = b.content

\* C29: a finished /api/chat/stream response starts with the 'started' event and
\* ends with a 'done' event, the only one in it, also when the run failed.
C29_StreamStartsAndEndsOnce ==
    (pc = "idle" /\ req.endpoint = "chat_stream") =>
        /\ Len(events) >= 2
        /\ events[1] = "started"
        /\ events[Len(events)] = "done"
        /\ Cardinality({i \in 1..Len(events) : events[i] = "done"}) = 1

\* C30: whenever no broadcast is under way, active holds exactly the websockets
\* that were accepted and neither disconnected nor failed a send; and the step
\* that ends a broadcast removes from active the websockets whose send failed in
\* it and no other, so those whose send succeeded stay.
C30_ActiveIsAcceptedMinusGone ==
    /\ []((\A t \in Tasks : bc[t].at = "idle")
             => active = accepted \ (disconnected \cup send_failed))
    /\ [][\A t \in Tasks :
             (bc[t].at = "sending" /\ bc'[t].at = "idle") =>
                /\ active' = active \ bc[t].stale
                /\ bc[t].sent \cap bc[t].stale = {}
                /\ (bc[t].sent \cap active) \subseteq active']_vars

\* no broadcast is under way and the last one of some caller had one send that
\* failed (that websocket is gone) and one that succeeded (that websocket is kept)
C30_Witness ==
    \E t \in Tasks :
        /\ \A u \in Tasks : bc[u].at = "idle"
        /\ bc[t].stale # {}
        /\ bc[t].sent # {}
        /\ bc[t].sent \subseteq active
        /\ bc[t].stale \cap active = {}

====
